---- MODULE Spec2Model ----
(***************************************************************************)
(* A model of the analysis service of wiz-forexbot:                        *)
(*   app/services/forex_analyzer.py  AdvancedForexAnalyzer                  *)
(*                                                                         *)
(* Numbers.  The service computes in binary floating point.  The model     *)
(* uses fixed point:                                                       *)
(*   prices            integers in units of 10^-MaxDecimals (1e-5)          *)
(*   change_pct        integers in units of 10^-ChangeDigits percent        *)
(*   rsi               integers in units of 10^-RsiDigits                   *)
(*   score             integers in tenths  (strength * 0.3 is strength*3)   *)
(*   confidence (avg)  integers in sixtieths (a mean of <= 6 integers)      *)
(*   slopes            integers in units of 1/50 (so |slope|*50 is exact)   *)
(* An optional value (Python None) is the empty tuple, a present value v   *)
(* is the one-element tuple <<v>>.                                         *)
(***************************************************************************)
EXTENDS Integers, Sequences, FiniteSets, TLC

VARIABLES
    pc,              \* position of the request: "idle", "running", "done"
    pair,            \* request.form['pair'] of the request being served
    image,           \* what OpenCV finds in the uploaded chart image
    quote,           \* what the Yahoo Finance request returns for the pair
    hashSeed,        \* the hash seed of the Python process serving the request
    min_confidence,  \* analyzer.min_confidence of the singleton instance
    result,          \* outcome of generate_signal: a report, or an exception
    first_result,    \* result of the previous run on the same inputs, if any
    live,            \* outcome of get_live_price_data on the series (SpecLive)
    runs,            \* how many times the current inputs have been analysed
    users,           \* the users table: the row of id i is users[i]
    config,          \* the class attributes of Config the routes read and set
    analyses,        \* the analyses table, in insertion order
    transactions,    \* the transactions table, in insertion order
    ad_views,        \* the ad_views table, in insertion order
    now,             \* datetime.utcnow(), in seconds
    slots,           \* the POST /analyze requests in flight, one per worker
    verdicts,        \* the TimeframeVerdicts handed to the aggregator
    aggregate,       \* the AggregateVerdict of the aggregator, if any
    epc              \* position of the aggregation: "idle", "collected", "done"

\* the analysis service and the market
core == <<pc, pair, image, quote, hashSeed, result, first_result, live, runs>>

\* the database, the configuration and the requests of the web application
web == <<users, config, analyses, transactions, ad_views, now, slots>>

\* the cross-timeframe aggregation
engine == <<verdicts, aggregate, epc>>

vars == <<core, min_confidence, web, engine>>

None == <<>>
Some(v) == <<v>>
Truthy(o) == o # None /\ o[1] # 0

----------------------------------------------------------------------------
(* Fixed-point arithmetic                                                  *)

MaxDecimals == 5
Scale == 10 ^ MaxDecimals

ChangeDigits == 4
ChangeScale == 10 ^ ChangeDigits

RsiDigits == 3
RsiScale == 10 ^ RsiDigits

\* a mean of n <= 6 integer factors is a whole number of sixtieths
ConfScale == 3 * 4 * 5

Abs(x) == IF x < 0 THEN -x ELSE x
Min(a, b) == IF a < b THEN a ELSE b
Max(a, b) == IF a > b THEN a ELSE b

RECURSIVE SeqSum(_)
SeqSum(s) == IF s = <<>> THEN 0 ELSE Head(s) + SeqSum(Tail(s))

RECURSIVE SeqMax(_)
SeqMax(s) == IF Len(s) = 1 THEN s[1] ELSE Max(Head(s), SeqMax(Tail(s)))

RECURSIVE SeqMin(_)
SeqMin(s) == IF Len(s) = 1 THEN s[1] ELSE Min(Head(s), SeqMin(Tail(s)))

\* x * n / d rounded to the nearest unit (a float product), without
\* forming x * n, which does not fit the model checker's integers.
Scaled(x, n, d) == (x \div d) * n + (((x % d) * n + d \div 2) \div d)

\* floor(r * 10^k / c) for 0 <= r < c, digit by digit (long division).
RECURSIVE Digits(_, _, _)
Digits(r, c, k) ==
    IF k = 0 THEN 0
    ELSE ((r * 10) \div c) * (10 ^ (k - 1)) + Digits((r * 10) % c, c, k - 1)

\* floor(a * 10^k / c) for c > 0: a float quotient kept to k decimals.
Ratio(a, c, k) == (a \div c) * (10 ^ k) + Digits(a % c, c, k)

\* x rounded to the nearest multiple of m, ties to the even multiple.
RoundTo(x, m) ==
    LET q == x \div m
        r == x % m
    IN  IF 2 * r < m THEN q * m
        ELSE IF 2 * r > m THEN (q + 1) * m
        ELSE IF q % 2 = 0 THEN q * m ELSE (q + 1) * m

\* Python round(x, decimals) of a price.
round(x, decimals) == RoundTo(x, 10 ^ (MaxDecimals - decimals))

\* x[-n:]
LastN(s, n) == IF Len(s) <= n THEN s ELSE SubSeq(s, Len(s) - n + 1, Len(s))

\* [v for v in s if v]
RECURSIVE Filter(_)
Filter(s) ==
    IF s = <<>> THEN <<>>
    ELSE IF Head(s) # 0 THEN <<Head(s)>> \o Filter(Tail(s)) ELSE Filter(Tail(s))

----------------------------------------------------------------------------
(* get_live_price_data                                                     *)

RsiPeriod == 14
SmaPeriod == 20

\* the per-step gains of the closes
gains(closes) ==
    [i \in 1..(Len(closes) - 1) |->
        LET change == closes[i + 1] - closes[i]
        IN  IF change > 0 THEN change ELSE 0]

\* the per-step losses of the closes
losses(closes) ==
    [i \in 1..(Len(closes) - 1) |->
        LET change == closes[i + 1] - closes[i]
        IN  IF change > 0 THEN 0 ELSE Abs(change)]

\* Window with the means taken over the whole series
Window_WholeSeries(s) == s

\* the window the means are taken over
Window(s) == IF Len(s) >= RsiPeriod THEN LastN(s, RsiPeriod) ELSE s

\* RsiOf with the flat window read as neutral
RsiOf_FlatNeutral(closes) ==
    LET sum_gain == SeqSum(Window(gains(closes)))
        sum_loss == SeqSum(Window(losses(closes)))
    IN  IF sum_loss = 0
        THEN IF sum_gain = 0 THEN 50 * RsiScale ELSE 100 * RsiScale
        ELSE 100 * RsiScale - Ratio(sum_loss, sum_loss + sum_gain, RsiDigits + 2)

\* Simple RSI calculation.  avg_gain and avg_loss are means over windows of
\* the same length, so avg_gain / avg_loss is the quotient of the sums and
\* 100 - 100 / (1 + rs) is 100 - 100 * loss / (loss + gain).
RsiOf(closes) ==
    LET sum_gain == SeqSum(Window(gains(closes)))
        sum_loss == SeqSum(Window(losses(closes)))
    IN  IF sum_loss = 0
        THEN 100 * RsiScale
        ELSE 100 * RsiScale - Ratio(sum_loss, sum_loss + sum_gain, RsiDigits + 2)

\* A function outcome: a returned value, or an exception that propagates.
Return(v) == [exc |-> "none", value |-> v]
Raise(e) == [exc |-> e, value |-> None]

\* the pairs of PAIRS the model draws requests from, with their symbols
PAIRS ==
    [p \in {"EURUSD", "USDJPY", "XAUUSD"} |->
        CASE p = "EURUSD" -> "EURUSD=X"
          [] p = "USDJPY" -> "USDJPY=X"
          [] p = "XAUUSD" -> "GC=F"]

\* The body of the try block of get_live_price_data, on the response q of
\* the chart request: q.kind = "error" stands for a failed request, a body
\* that is not JSON or a missing key; a 0 in q.close/high/low stands for a
\* null (or zero) entry, which the list comprehensions drop.
fetch_live_price_data(q) ==
    IF q.kind = "error" THEN Raise("RequestException")
    ELSE
    LET closes == Filter(q.close)
        highs == Filter(q.high)
        lows == Filter(q.low)
    IN  IF closes = <<>> THEN Return(None)
        ELSE
        LET current_price == closes[Len(closes)]
            previous_close ==
                IF q.previousClose = None THEN closes[1] ELSE q.previousClose[1]
            day_high == IF highs # <<>> THEN SeqMax(highs) ELSE current_price
            day_low == IF lows # <<>> THEN SeqMin(lows) ELSE current_price
        IN  IF previous_close = 0 THEN Raise("ZeroDivisionError")
            ELSE Return(Some(
                [price |-> current_price,
                 previous |-> previous_close,
                 change_pct |->
                     Ratio(100 * (current_price - previous_close),
                           previous_close, ChangeDigits),
                 day_high |-> day_high,
                 day_low |-> day_low,
                 rsi |-> RsiOf(closes),
                 trend |->
                     IF Len(closes) >= SmaPeriod
                     THEN IF SeqSum([i \in 1..SmaPeriod |->
                                  current_price - LastN(closes, SmaPeriod)[i]]) > 0
                          THEN "above_sma20" ELSE "below_sma20"
                     ELSE "neutral"]))

\* get_live_price_data without the except clause
get_live_price_data_NoExcept(q) == fetch_live_price_data(q)

\* get_live_price_data: the try block, and `except Exception: return None`.
get_live_price_data(q) ==
    LET r == fetch_live_price_data(q)
    IN  IF r.exc # "none" THEN Return(None) ELSE r

----------------------------------------------------------------------------
(* analyze_chart_image                                                     *)

\* price_position is kept to PosDigits decimals
PosDigits == 3
PosScale == 10 ^ PosDigits

\* support and resistance are relative levels rounded to one decimal: tenths
LevelScale == 10

\* Detect overall trend direction.  img.lines is the number of Hough lines
\* found, img.slope their average slope in units of 1/50.
_detect_trend(img) ==
    IF img.lines < 2 THEN [direction |-> "sideways", strength |-> 30]
    ELSE IF img.slope < -5
         THEN [direction |-> "uptrend", strength |-> Min(95, 70 + Abs(img.slope))]
    ELSE IF img.slope > 5
         THEN [direction |-> "downtrend", strength |-> Min(95, 70 + Abs(img.slope))]
    ELSE [direction |-> "sideways", strength |-> 40]

\* 100 - (y / height * 100), rounded to one decimal, in tenths
LevelOf(y, height) == 100 * LevelScale - RoundTo(Ratio(y, height, 4), 10) \div 10

\* Find support and resistance.  img.zones are the rows y (multiples of 20,
\* ascending, as the scan appends them) with a high density of edges.
_find_support_resistance(img) ==
    IF Len(img.zones) < 2
    THEN [support |-> None, resistance |-> None, levels_found |-> None]
    ELSE [support |-> Some(LevelOf(img.zones[1], img.height)),
          resistance |-> Some(LevelOf(img.zones[Len(img.zones)], img.height)),
          levels_found |-> Some(Len(img.zones))]

\* The patterns appended for the contours, in contour order: a contour is
\* [points, vertices, area].
RECURSIVE ContourPatterns(_)
ContourPatterns(contours) ==
    IF contours = <<>> THEN <<>>
    ELSE LET c == Head(contours)
             here == IF c.points > 50
                     THEN IF c.vertices = 3 THEN <<"triangle">>
                          ELSE IF c.vertices = 4 THEN <<"rectangle_channel">>
                          ELSE <<>>
                     ELSE <<>>
         IN  here \o ContourPatterns(Tail(contours))

\* [cv2.contourArea(c) for c in contours if cv2.contourArea(c) > 100]
RECURSIVE Areas(_)
Areas(contours) ==
    IF contours = <<>> THEN <<>>
    ELSE IF Head(contours).area > 100
         THEN <<Head(contours).area>> \o Areas(Tail(contours))
         ELSE Areas(Tail(contours))

\* The rank a process with hash seed `seed` gives a string in the iteration
\* order of a set of strings: str hashes are randomised per process.
HashRank(seed, name) ==
    LET r == CASE name = "triangle" -> 1
               [] name = "rectangle_channel" -> 2
               [] name = "double_pattern" -> 3
    IN  IF seed = 0 THEN r ELSE 4 - r

\* list(set(patterns)) in a process with hash seed `seed`
RECURSIVE ListOfSet(_, _)
ListOfSet(S, seed) ==
    IF S = {} THEN <<>>
    ELSE LET first == CHOOSE x \in S : \A y \in S : HashRank(seed, x) <= HashRank(seed, y)
         IN  <<first>> \o ListOfSet(S \ {first}, seed)

Range(s) == {s[i] : i \in 1..Len(s)}

\* Detect chart patterns (triangles, channels, double top/bottom).
_detect_patterns(img, seed) ==
    LET areas == Areas(img.contours)
        double ==
            IF Len(img.contours) > 2 /\ Len(areas) >= 2
                  /\ 10 * Abs(areas[1] - areas[2]) < 2 * areas[1]
            THEN <<"double_pattern">> ELSE <<>>
        patterns == ContourPatterns(img.contours) \o double
    IN  IF patterns # <<>> THEN ListOfSet(Range(patterns), seed)
        ELSE <<"no_clear_pattern">>

\* img.volatility is std(price changes) / mean(price) * 100 of the sampled
\* columns, in tenths; img.samples the number of columns with a bright pixel.
_calculate_volatility(img) ==
    IF img.samples < 2 THEN "medium"
    ELSE IF img.volatility > 5 * 10 THEN "high"
    ELSE IF img.volatility > 2 * 10 THEN "medium"
    ELSE "low"

\* img.left_volume / img.right_volume: bright pixels of the two halves of
\* the bottom fifth of the chart.
_analyze_volume(img) ==
    IF 10 * img.right_volume > 13 * img.left_volume THEN "increasing"
    ELSE IF 10 * img.right_volume < 7 * img.left_volume THEN "decreasing"
    ELSE "stable"

\* img.upper_half / img.lower_half: edge mass of the two halves of the chart.
_analyze_candles(img) ==
    IF 10 * img.upper_half > 12 * img.lower_half THEN "more_bearish_candles"
    ELSE IF 10 * img.lower_half > 12 * img.upper_half THEN "more_bullish_candles"
    ELSE "mixed_candles"

\* Return default analysis structure
_fallback_analysis ==
    [trend_detected |-> [direction |-> "unknown", strength |-> 50],
     support_resistance |->
         [support |-> Some(30 * LevelScale), resistance |-> Some(70 * LevelScale),
          levels_found |-> None],
     patterns |-> <<"analysis_failed">>,
     volatility |-> "medium",
     volume_trend |-> "stable",
     candle_structure |-> "mixed_candles"]

\* The body of the try block of analyze_chart_image: img.kind = "unreadable"
\* is an image cv2.imread cannot load, img.kind = "error" one on which an
\* OpenCV call raises (a chart narrower than 10 pixels, say).
try_analyze_chart_image(img, seed) ==
    IF img.kind = "unreadable" THEN Return(_fallback_analysis)
    ELSE IF img.kind = "error" THEN Raise("cv2.error")
    ELSE Return(
        [trend_detected |-> _detect_trend(img),
         support_resistance |-> _find_support_resistance(img),
         patterns |-> _detect_patterns(img, seed),
         volatility |-> _calculate_volatility(img),
         volume_trend |-> _analyze_volume(img),
         candle_structure |-> _analyze_candles(img)])

\* analyze_chart_image: the try block, and the except clause's fallback.
analyze_chart_image(img, seed) ==
    LET r == try_analyze_chart_image(img, seed)
    IN  IF r.exc # "none" THEN Return(_fallback_analysis) ELSE r

----------------------------------------------------------------------------
(* _calculate_final_signal and generate_signal                             *)

\* a reason: the text of the f-string and the numbers formatted into it
Reason(text, args) == [text |-> text, args |-> args]

\* a level or a price-like number in price units
LevelPrice(level) == level * (Scale \div LevelScale)

\* mean(confidence_factors), in sixtieths
Mean60(factors) ==
    IF factors # <<>> THEN (SeqSum(factors) * ConfScale) \div Len(factors)
    ELSE 50 * ConfScale

\* 1. Image Trend Analysis: <<score, reasons, confidence_factors>>
TrendPart(trend) ==
    IF trend.direction = "uptrend"
    THEN <<trend.strength * 3,
           <<Reason("Chart shows uptrend (strength: %)", <<trend.strength>>)>>,
           <<trend.strength>> >>
    ELSE IF trend.direction = "downtrend"
    THEN <<-(trend.strength * 3),
           <<Reason("Chart shows downtrend (strength: %)", <<trend.strength>>)>>,
           <<trend.strength>> >>
    ELSE <<0, <<Reason("Chart trend is sideways/consolidating", <<>>)>>, <<40>> >>

\* where the current price is in the support/resistance range, in percent
PricePosition(sr, live_data) ==
    LET support == sr.support[1]
        range_size == sr.resistance[1] - support
    IN  IF live_data.price > 0 /\ range_size > 0
        THEN Ratio(live_data.price - LevelPrice(support), LevelPrice(range_size),
                   PosDigits + 2)
        ELSE 50 * PosScale

\* 2. Support/Resistance Analysis
SupportResistancePart(sr, live_data) ==
    IF Truthy(sr.support) /\ Truthy(sr.resistance)
    THEN LET price_position == PricePosition(sr, live_data)
         IN  IF price_position < 30 * PosScale
             THEN <<150,
                    <<Reason("Price near support - bullish bounce likely", sr.support)>>,
                    <<70>> >>
             ELSE IF price_position > 70 * PosScale
             THEN <<-150,
                    <<Reason("Price near resistance - bearish rejection likely",
                             sr.resistance)>>,
                    <<70>> >>
             ELSE <<0,
                    <<Reason("Price in middle of range", sr.support \o sr.resistance)>>,
                    <<50>> >>
    ELSE <<0, <<>>, <<>> >>

\* 3. Pattern Analysis
PatternPart(patterns, live_data) ==
    IF "triangle" \in Range(patterns)
    THEN IF 10 * live_data.change_pct > 5 * ChangeScale
         THEN <<200,
                <<Reason("Ascending triangle pattern detected - bullish breakout", <<>>)>>,
                <<75>> >>
         ELSE <<-200,
                <<Reason("Descending triangle pattern detected - bearish breakdown", <<>>)>>,
                <<75>> >>
    ELSE IF "rectangle_channel" \in Range(patterns)
    THEN <<0, <<Reason("Price trading in channel - range bound", <<>>)>>, <<60>> >>
    ELSE <<0, <<>>, <<>> >>

\* round(rsi, 1), in tenths
Rsi1(rsi) == RoundTo(rsi, RsiScale \div 10) \div (RsiScale \div 10)

\* round(change, 2), in hundredths of a percent
Change2(change) == RoundTo(change, ChangeScale \div 100) \div (ChangeScale \div 100)

\* 4. Live Data Analysis: RSI
RsiPart(rsi) ==
    IF rsi < 30 * RsiScale
    THEN <<200, <<Reason("RSI oversold - strong bullish reversal signal", <<Rsi1(rsi)>>)>>,
           <<80>> >>
    ELSE IF rsi < 40 * RsiScale
    THEN <<100, <<Reason("RSI approaching oversold", <<Rsi1(rsi)>>)>>, <<65>> >>
    ELSE IF rsi > 70 * RsiScale
    THEN <<-200, <<Reason("RSI overbought - strong bearish reversal signal", <<Rsi1(rsi)>>)>>,
           <<80>> >>
    ELSE IF rsi > 60 * RsiScale
    THEN <<-100, <<Reason("RSI approaching overbought", <<Rsi1(rsi)>>)>>, <<65>> >>
    ELSE <<0, <<>>, <<>> >>

\* 4. Live Data Analysis: price change momentum
MomentumPart(change) ==
    IF change > 1 * ChangeScale
    THEN <<100, <<Reason("Strong bullish momentum", <<Change2(change)>>)>>, <<70>> >>
    ELSE IF change < -1 * ChangeScale
    THEN <<-100, <<Reason("Strong bearish momentum", <<Change2(change)>>)>>, <<70>> >>
    ELSE <<0, <<>>, <<>> >>

\* 5. Candle Structure
CandlePart(candles) ==
    IF candles = "more_bullish_candles"
    THEN <<100, <<Reason("More bullish candles detected in recent price action", <<>>)>>,
           <<60>> >>
    ELSE IF candles = "more_bearish_candles"
    THEN <<-100, <<Reason("More bearish candles detected in recent price action", <<>>)>>,
           <<60>> >>
    ELSE <<0, <<>>, <<>> >>

\* DetermineSignal without the cap of 95 on the confidence of a trade
DetermineSignal_NoCap(score, avg_confidence, minc) ==
    IF score > 250 /\ avg_confidence > minc * ConfScale
    THEN <<"BUY", avg_confidence + 10 * ConfScale>>
    ELSE IF score < -250 /\ avg_confidence > minc * ConfScale
    THEN <<"SELL", avg_confidence + 10 * ConfScale>>
    ELSE <<"NEUTRAL", avg_confidence>>

\* Determine signal: <<signal, confidence>>, confidence in sixtieths
DetermineSignal(score, avg_confidence, minc) ==
    IF score > 250 /\ avg_confidence > minc * ConfScale
    THEN <<"BUY", Min(95 * ConfScale, avg_confidence + 10 * ConfScale)>>
    ELSE IF score < -250 /\ avg_confidence > minc * ConfScale
    THEN <<"SELL", Min(95 * ConfScale, avg_confidence + 10 * ConfScale)>>
    ELSE <<"NEUTRAL", avg_confidence>>

\* CalculateLevels with every signal but BUY given the levels of a SELL
CalculateLevels_NoElse(signal, current_price, day_high, day_low) ==
    IF signal = "BUY"
    THEN LET entry == current_price
             sl == Min(Scaled(day_low, 998, 1000), Scaled(current_price, 985, 1000))
             risk == entry - sl
         IN  [entry |-> entry, tp |-> Some(entry + Scaled(risk, 25, 10)), sl |-> Some(sl)]
    ELSE LET entry == current_price
             sl == Max(Scaled(day_high, 1002, 1000), Scaled(current_price, 1015, 1000))
             risk == sl - entry
         IN  [entry |-> entry, tp |-> Some(entry - Scaled(risk, 25, 10)), sl |-> Some(sl)]

\* CalculateLevels with the stop taken from the day's range alone
CalculateLevels_DayRangeOnly(signal, current_price, day_high, day_low) ==
    IF signal = "BUY"
    THEN LET entry == current_price
             sl == Scaled(day_low, 998, 1000)
             risk == entry - sl
         IN  [entry |-> entry, tp |-> Some(entry + Scaled(risk, 25, 10)), sl |-> Some(sl)]
    ELSE IF signal = "SELL"
    THEN LET entry == current_price
             sl == Scaled(day_high, 1002, 1000)
             risk == sl - entry
         IN  [entry |-> entry, tp |-> Some(entry - Scaled(risk, 25, 10)), sl |-> Some(sl)]
    ELSE [entry |-> current_price, tp |-> None, sl |-> None]

\* CalculateLevels with the target at 2:1, as its comment says
CalculateLevels_TwoToOne(signal, current_price, day_high, day_low) ==
    IF signal = "BUY"
    THEN LET entry == current_price
             sl == Min(Scaled(day_low, 998, 1000), Scaled(current_price, 985, 1000))
             risk == entry - sl
         IN  [entry |-> entry, tp |-> Some(entry + 2 * risk), sl |-> Some(sl)]
    ELSE IF signal = "SELL"
    THEN LET entry == current_price
             sl == Max(Scaled(day_high, 1002, 1000), Scaled(current_price, 1015, 1000))
             risk == sl - entry
         IN  [entry |-> entry, tp |-> Some(entry - 2 * risk), sl |-> Some(sl)]
    ELSE [entry |-> current_price, tp |-> None, sl |-> None]

\* Calculate levels: [entry, tp, sl], tp and sl optional
CalculateLevels(signal, current_price, day_high, day_low) ==
    IF signal = "BUY"
    THEN LET entry == current_price
             sl == Min(Scaled(day_low, 998, 1000), Scaled(current_price, 985, 1000))
             risk == entry - sl
         IN  [entry |-> entry, tp |-> Some(entry + Scaled(risk, 25, 10)), sl |-> Some(sl)]
    ELSE IF signal = "SELL"
    THEN LET entry == current_price
             sl == Max(Scaled(day_high, 1002, 1000), Scaled(current_price, 1015, 1000))
             risk == sl - entry
         IN  [entry |-> entry, tp |-> Some(entry - Scaled(risk, 25, 10)), sl |-> Some(sl)]
    ELSE [entry |-> current_price, tp |-> None, sl |-> None]

\* Decimals with the four tiers 2 / 3 / 4 / 5
Decimals_FourTiers(current_price) ==
    IF current_price > 10000 * Scale THEN 2
    ELSE IF current_price > 1000 * Scale THEN 3
    ELSE IF current_price > 100 * Scale THEN 4
    ELSE 5

\* Round to proper decimals
Decimals(current_price) ==
    IF current_price > 1000 * Scale THEN 2
    ELSE IF current_price > 100 * Scale THEN 3
    ELSE 5

\* round(v, decimals) if v else None
RoundedOrNone(v, decimals) ==
    IF Truthy(v) THEN Some(round(v[1], decimals)) ELSE None

\* Calculate final trading signal from all data
_calculate_final_signal(minc, img_analysis, live_data, p) ==
    LET trend == img_analysis.trend_detected
        sr == img_analysis.support_resistance
        patterns == img_analysis.patterns
        rsi == live_data.rsi
        change == live_data.change_pct
        parts == <<TrendPart(trend),
                   SupportResistancePart(sr, live_data),
                   PatternPart(patterns, live_data),
                   RsiPart(rsi),
                   MomentumPart(change),
                   CandlePart(img_analysis.candle_structure)>>
        score == SeqSum([i \in 1..Len(parts) |-> parts[i][1]])
        reasons == parts[1][2] \o parts[2][2] \o parts[3][2] \o parts[4][2]
                       \o parts[5][2] \o parts[6][2]
        confidence_factors == parts[1][3] \o parts[2][3] \o parts[3][3] \o parts[4][3]
                                  \o parts[5][3] \o parts[6][3]
        avg_confidence == Mean60(confidence_factors)
        decision == DetermineSignal(score, avg_confidence, minc)
        signal == decision[1]
        confidence == decision[2]
        current_price == live_data.price
        day_high == live_data.day_high
        day_low == live_data.day_low
        lv == CalculateLevels(signal, current_price, day_high, day_low)
        decimals == Decimals(current_price)
    IN  [signal |-> signal,
         confidence |-> RoundTo(confidence, ConfScale \div 10) \div (ConfScale \div 10),
         score |-> score,
         entry_price |-> RoundedOrNone(Some(lv.entry), decimals),
         take_profit |-> RoundedOrNone(lv.tp, decimals),
         stop_loss |-> RoundedOrNone(lv.sl, decimals),
         risk_reward |-> IF signal # "NEUTRAL" THEN 25 ELSE 0,
         reasoning |-> reasons,
         indicators |->
             [rsi |-> Rsi1(rsi),
              change_24h |-> Change2(change),
              trend_direction |-> trend.direction,
              volatility |-> img_analysis.volatility,
              volume_trend |-> img_analysis.volume_trend,
              patterns_detected |-> patterns],
         levels |->
             [day_high |-> round(day_high, decimals),
              day_low |-> round(day_low, decimals),
              support |-> sr.support,
              resistance |-> sr.resistance]]

\* the live data generate_signal substitutes when the fetch gave none
NoLiveData ==
    [price |-> 0, change_pct |-> 0, rsi |-> 50 * RsiScale,
     day_high |-> 0, day_low |-> 0, trend |-> "neutral"]

\* Generate comprehensive trading signal: the report, or the exception that
\* escapes.  img.kind = "none" is a request without a chart image.
generate_signal(minc, p, img, q, seed) ==
    LET img_analysis ==
            IF img.kind # "none" THEN analyze_chart_image(img, seed)
            ELSE Return(_fallback_analysis)
    IN  IF img_analysis.exc # "none" THEN Raise(img_analysis.exc)
        ELSE
        LET fetched == get_live_price_data(q)
        IN  IF fetched.exc # "none" THEN Raise(fetched.exc)
            ELSE
            LET live_data ==
                    IF fetched.value = None THEN NoLiveData ELSE fetched.value[1]
            IN  Return(_calculate_final_signal(minc, img_analysis.value, live_data, p))

----------------------------------------------------------------------------
(* The inputs: chart images and market responses                           *)

MaxCloses == 3
MaxBars == 16
MaxMoves == 3

\* all sequences over S of length 0..n
SeqsUpTo(S, n) == UNION {[1..k -> S] : k \in 0..n}

\* a price level of the market of a symbol: 1.10357, 150.12345, 1500.12345
BasePrice(symbol) ==
    CASE symbol = "EURUSD=X" -> Scale + 10357
      [] symbol = "USDJPY=X" -> 150 * Scale + 12345
      [] symbol = "GC=F" -> 1500 * Scale + 12345

\* the closes move in steps of 0.6 % of the base price
Step(base) == (base \div 1000) * 6

ClosePrices(base) == {base - Step(base), base, base + Step(base)}

\* a response of the chart request: the highs and lows of the bars lie one
\* step off the closes, or are all null (present = FALSE)
Quote(closes, prev, present, base) ==
    [kind |-> "ok",
     close |-> closes,
     high |-> [i \in 1..Len(closes) |->
                  IF present /\ closes[i] # 0 THEN closes[i] + Step(base) ELSE 0],
     low |-> [i \in 1..Len(closes) |->
                 IF present /\ closes[i] # 0 THEN closes[i] - Step(base) ELSE 0],
     previousClose |-> prev]

FetchError == [kind |-> "error", close |-> <<>>, high |-> <<>>, low |-> <<>>,
               previousClose |-> None]

\* The responses the model draws for a symbol: a failed request; every
\* series of up to MaxCloses closes; series with null entries; a
\* previousClose of 0, below, at and above the close; bars without highs
\* and lows.
Quotes(symbol) ==
    LET base == BasePrice(symbol)
        lo == base - Step(base)
        hi == base + Step(base)
    IN  {FetchError}
        \cup {Quote(c, None, TRUE, base) : c \in SeqsUpTo(ClosePrices(base), MaxCloses)}
        \cup {Quote(c, None, TRUE, base) : c \in {<<0>>, <<0, base>>, <<base, 0, hi>>}}
        \cup {Quote(<<base, base>>, prev, TRUE, base) :
                 prev \in {Some(0), Some(lo), Some(base), Some(hi)}}
        \cup {Quote(c, None, FALSE, base) : c \in {<<base>>, <<lo, hi>>}}

NoImage ==
    [kind |-> "none", lines |-> 0, slope |-> 0, height |-> 200, zones |-> <<>>,
     contours |-> <<>>, samples |-> 0, volatility |-> 0,
     left_volume |-> 0, right_volume |-> 0, upper_half |-> 0, lower_half |-> 0]

Triangle == [points |-> 60, vertices |-> 3, area |-> 500]
Rectangle == [points |-> 60, vertices |-> 4, area |-> 700]

\* the contours of the charts the model draws
Contours ==
    {<<>>, <<Triangle>>, <<Rectangle>>, <<Triangle, Rectangle>>,
     <<Rectangle, Triangle>>, <<Triangle, Triangle, Rectangle>>,
     <<Rectangle, Rectangle, Rectangle>>}

\* The uploads the model draws: no upload, an unreadable file, a file on
\* which OpenCV raises, and readable charts.
Images ==
    {NoImage, [NoImage EXCEPT !.kind = "unreadable"], [NoImage EXCEPT !.kind = "error"]}
    \cup
    {[kind |-> "ok", lines |-> t[1], slope |-> t[2], height |-> 200, zones |-> z,
      contours |-> c, samples |-> 10, volatility |-> 30,
      left_volume |-> 10, right_volume |-> 10,
      upper_half |-> h[1], lower_half |-> h[2]] :
        t \in {<<0, 0>>, <<2, -30>>, <<2, -6>>, <<2, 0>>, <<2, 6>>, <<2, 30>>},
        z \in {<<>>, <<60, 140>>},
        c \in Contours,
        h \in {<<13, 10>>, <<10, 10>>, <<10, 13>>}}

HashSeeds == {0, 1}

----------------------------------------------------------------------------
(* The web application: its tables, its configuration, its requests        *)

MaxUsers == 2
MaxRows == 2

\* the workers (threads or processes) that serve requests
Workers == {1, 2}

ADMIN_EMAIL == "admin@wizforex.com"
AdminCredits == 999999
SignupCredits == 1000
MinPassword == 6
AdInterval == 30
DaySeconds == 86400

\* a row of the users table
User(username, email, credits, is_admin) ==
    [username |-> username, email |-> email, credits |-> credits,
     is_admin |-> is_admin, is_active |-> TRUE]

\* Config.ANALYSIS_COST, Config.AD_REWARD and Config.DAILY_FREE_CREDITS:
\* class Config defines none of them, they exist once POST /admin/settings
\* has set them.
NoConfig == [ANALYSIS_COST |-> None, AD_REWARD |-> None, DAILY_FREE_CREDITS |-> None]

\* a worker that serves no POST /analyze
IdleSlot == [pc |-> "idle", user |-> 0, credits |-> 0, request |-> None]

\* the application after create_app() with configuration cfg: the tables are
\* created and init_database has inserted the admin.
WebState(cfg) ==
    /\ users = <<User("admin", ADMIN_EMAIL, AdminCredits, TRUE)>>
    /\ config = cfg
    /\ analyses = <<>>
    /\ transactions = <<>>
    /\ ad_views = <<>>
    /\ now = 0
    /\ slots = [w \in Workers |-> IdleSlot]

WebInit == WebState(NoConfig)

----------------------------------------------------------------------------
(***************************************************************************)
(* The cross-timeframe aggregator                                          *)
(*                                                                         *)
(* A TimeframeVerdict is [timeframe, signal, confidence, price, weight],   *)
(* confidence an integer in 0..100.  The verdicts of a request are kept in *)
(* timeframe order, at most one per timeframe.  Vote totals and netScore   *)
(* are in units of 1/200 (weight * confidence/100 * multiplier, the        *)
(* multiplier in halves); the confidence of an AggregateVerdict is in      *)
(* hundredths (25 is 2500).  Where the design leaves a value open (the     *)
(* grade of a family, the confidence of a voted verdict, whether the       *)
(* conflict gate returns before the divergence penalty) the aggregator is  *)
(* a choice among the admissible verdicts.                                 *)
(***************************************************************************)
Timeframes == <<"M15", "H4", "D1">>
HigherTimeframes == {"H4", "D1"}
TimeframeWeight == [M15 |-> 1, H4 |-> 2, D1 |-> 3]

BuyClass == {"STRONG_BUY", "BUY", "WEAK_BUY"}
SellClass == {"STRONG_SELL", "SELL", "WEAK_SELL"}
Signals == BuyClass \cup SellClass \cup {"NO_TRADE"}

ConflictConfidence == 25

TimeframeVerdict(timeframe, signal, confidence, price) ==
    [timeframe |-> timeframe, signal |-> signal, confidence |-> confidence,
     price |-> price, weight |-> TimeframeWeight[timeframe]]

AggregateVerdict(signal, confidence, net, reasons) ==
    [signal |-> signal, confidence |-> confidence, netScore |-> net, reasons |-> reasons]

EngineInit ==
    /\ verdicts = <<>>
    /\ aggregate = None
    /\ epc = "idle"

\* twice the direction multiplier: 2 strong, 1 plain, 0.5 weak
directionMultiplier(signal) ==
    CASE signal \in {"STRONG_BUY", "STRONG_SELL"} -> 4
      [] signal \in {"BUY", "SELL"} -> 2
      [] signal \in {"WEAK_BUY", "WEAK_SELL"} -> 1
      [] OTHER -> 0

\* weight(timeframe) * (confidence/100) * directionMultiplier, in 1/200
Contribution(v) == v.weight * v.confidence * directionMultiplier(v.signal)

\* the contributions of the verdicts whose signal is in class, summed
RECURSIVE ClassTotal(_, _)
ClassTotal(vs, class) ==
    IF vs = <<>> THEN 0
    ELSE (IF Head(vs).signal \in class THEN Contribution(Head(vs)) ELSE 0)
             + ClassTotal(Tail(vs), class)

bullTotal(vs) == ClassTotal(vs, BuyClass)
bearTotal(vs) == ClassTotal(vs, SellClass)
netScore(vs) == bullTotal(vs) - bearTotal(vs)

\* the conflict gate: at least two higher timeframes are present and they
\* contain both a buy-class and a sell-class signal
HigherConflict_StrongOnly(vs) ==
    LET higher == {i \in DOMAIN vs : vs[i].timeframe \in HigherTimeframes}
    IN  /\ Cardinality(higher) >= 2
        /\ \E i \in higher : vs[i].signal = "STRONG_BUY"
        /\ \E i \in higher : vs[i].signal = "STRONG_SELL"

HigherConflict(vs) ==
    LET higher == {i \in DOMAIN vs : vs[i].timeframe \in HigherTimeframes}
    IN  /\ Cardinality(higher) >= 2
        /\ \E i \in higher : vs[i].signal \in BuyClass
        /\ \E i \in higher : vs[i].signal \in SellClass

RECURSIVE PriceSum(_)
PriceSum(vs) == IF vs = <<>> THEN 0 ELSE Head(vs).price + PriceSum(Tail(vs))

\* (max(price) - min(price)) / meanPrice * 100 > 1.5
Diverges(vs) ==
    LET prices == {vs[i].price : i \in DOMAIN vs}
        hi == CHOOSE x \in prices : \A y \in prices : y <= x
        lo == CHOOSE x \in prices : \A y \in prices : x <= y
    IN  vs # <<>> /\ (hi - lo) * 1000 * Len(vs) > 15 * PriceSum(vs)

\* the final confidence multiplied by 0.75
DivergencePenalty(confidence) == (confidence * 3) \div 4

\* the confidences a voted verdict may carry before the penalty, in
\* hundredths: the design fixes no formula for them
VotedConfidences == {0, 30 * 100, 60 * 100, 98 * 100}

\* the family of the weighted vote: bullTotal > bearTotal * 1.5 and
\* netScore > 2 is the buy family, mirrored for sell, otherwise NO_TRADE
Family(vs) ==
    LET bull == bullTotal(vs)
        bear == bearTotal(vs)
    IN  IF 2 * bull > 3 * bear /\ bull - bear > 2 * 200 THEN BuyClass
        ELSE IF 2 * bear > 3 * bull /\ bear - bull > 2 * 200 THEN SellClass
        ELSE {"NO_TRADE"}

\* the AggregateVerdicts the aggregator may return for the verdicts vs
Aggregate(vs) ==
    IF vs = <<>>
    THEN {AggregateVerdict("NO_TRADE", 0, 0, <<"No data">>)}
    ELSE IF HigherConflict(vs)
    THEN {AggregateVerdict("NO_TRADE", ConflictConfidence * 100, 0,
                           <<"Higher timeframes conflict">>)}
         \cup (IF Diverges(vs)
               THEN {AggregateVerdict("NO_TRADE",
                                      DivergencePenalty(ConflictConfidence * 100), 0,
                                      <<"Higher timeframes conflict", "Price divergence">>)}
               ELSE {})
    ELSE {AggregateVerdict(signal,
                           IF Diverges(vs) THEN DivergencePenalty(c) ELSE c,
                           netScore(vs),
                           IF Diverges(vs) THEN <<"Price divergence">> ELSE <<>>) :
              signal \in Family(vs), c \in VotedConfidences}

----------------------------------------------------------------------------
(* The service: one request at a time through generate_signal              *)

NoResult == Raise("no result")

Init ==
    /\ pc = "idle"
    /\ pair = "EURUSD"
    /\ image = NoImage
    /\ quote = FetchError
    /\ hashSeed \in HashSeeds
    /\ min_confidence = 70
    /\ result = NoResult
    /\ first_result = NoResult
    /\ live = NoResult
    /\ runs = 0
    /\ WebInit
    /\ EngineInit

\* A request arrives: POST /analyze with a pair and possibly a chart image;
\* the market answers the chart request of the pair's symbol with q.
Request(p, img, q) ==
    /\ pc = "idle"
    /\ pc' = "running"
    /\ pair' = p
    /\ image' = img
    /\ quote' = q
    /\ UNCHANGED <<hashSeed, min_confidence, result, first_result, live, runs>>
    /\ UNCHANGED <<web, engine>>

\* analyzer.generate_signal(pair, image_path)
GenerateSignal ==
    /\ pc = "running"
    /\ pc' = "done"
    /\ result' = generate_signal(min_confidence, pair, image, quote, hashSeed)
    /\ runs' = runs + 1
    /\ UNCHANGED <<pair, image, quote, hashSeed, min_confidence, first_result, live>>
    /\ UNCHANGED <<web, engine>>

\* The response is sent.
Respond ==
    /\ pc = "done"
    /\ pc' = "idle"
    /\ pair' = "EURUSD"
    /\ image' = NoImage
    /\ quote' = FetchError
    /\ result' = NoResult
    /\ first_result' = NoResult
    /\ runs' = 0
    /\ UNCHANGED <<hashSeed, min_confidence, live>>
    /\ UNCHANGED <<web, engine>>

Next ==
    \/ /\ pc = "idle"
       /\ \E p \in DOMAIN PAIRS, img \in Images :
              \E q \in Quotes(PAIRS[p]) : Request(p, img, q)
    \/ GenerateSignal
    \/ Respond

Spec == Init /\ [][Next]_vars

----------------------------------------------------------------------------
(* The same request twice: SpecRepeat                                      *)

\* The same request is made again (same pair, same image, same market
\* response) and is served by a process with hash seed s: another worker,
\* or the service after a restart.
RunAgain(s) ==
    /\ pc = "done"
    /\ runs = 1
    /\ pc' = "running"
    /\ first_result' = result
    /\ hashSeed' = s
    /\ UNCHANGED <<pair, image, quote, min_confidence, result, live, runs>>
    /\ UNCHANGED <<web, engine>>

\* the market responses of SpecRepeat: no data, one close, a rising series
RepeatQuotes(symbol) ==
    LET base == BasePrice(symbol)
    IN  {FetchError, Quote(<<base>>, None, TRUE, base),
         Quote(<<base - Step(base), base + Step(base)>>, None, TRUE, base)}

NextRepeat ==
    \/ /\ pc = "idle"
       /\ \E img \in Images :
              \E q \in RepeatQuotes(PAIRS["EURUSD"]) : Request("EURUSD", img, q)
    \/ GenerateSignal
    \/ \E s \in HashSeeds : RunAgain(s)
    \/ Respond

SpecRepeat == Init /\ [][NextRepeat]_vars

----------------------------------------------------------------------------
(* The market data of one symbol as its series grows: SpecLive             *)

\* the number of bars of the series whose close differs from the one before
RECURSIVE Moves(_)
Moves(closes) ==
    IF Len(closes) < 2 THEN 0
    ELSE (IF closes[1] # closes[2] THEN 1 ELSE 0) + Moves(Tail(closes))

LiveBase == BasePrice(PAIRS["EURUSD"])

InitLive ==
    /\ pc = "market"
    /\ pair = "EURUSD"
    /\ image = NoImage
    /\ quote \in {Quote(<<c>>, None, TRUE, LiveBase) : c \in ClosePrices(LiveBase)}
    /\ hashSeed = 0
    /\ min_confidence = 70
    /\ result = NoResult
    /\ first_result = NoResult
    /\ live = NoResult
    /\ runs = 0
    /\ WebInit
    /\ EngineInit

\* The market closes another bar at c: the series of the next response.
NewBar(c) ==
    /\ pc = "market"
    /\ Len(quote.close) < MaxBars
    /\ Moves(Append(quote.close, c)) <= MaxMoves
    /\ quote' = Quote(Append(quote.close, c), None, TRUE, LiveBase)
    /\ UNCHANGED <<pc, pair, image, hashSeed, min_confidence, result, first_result,
                   live, runs>>
    /\ UNCHANGED <<web, engine>>

\* analyzer.get_live_price_data(pair) on the series so far
GetLivePriceData ==
    /\ pc = "market"
    /\ pc' = "fetched"
    /\ live' = get_live_price_data(quote)
    /\ UNCHANGED <<pair, image, quote, hashSeed, min_confidence, result, first_result, runs>>
    /\ UNCHANGED <<web, engine>>

NextLive ==
    \/ \E c \in ClosePrices(LiveBase) : NewBar(c)
    \/ GetLivePriceData

SpecLive == InitLive /\ [][NextLive]_vars

----------------------------------------------------------------------------
(* The routes of the web application: SpecWeb and SpecRace                 *)

\* a chart with a steep uptrend and nothing else
UptrendChart ==
    [kind |-> "ok", lines |-> 2, slope |-> -30, height |-> 200, zones |-> <<>>,
     contours |-> <<>>, samples |-> 10, volatility |-> 30,
     left_volume |-> 10, right_volume |-> 10, upper_half |-> 10, lower_half |-> 10]

\* a chart with a downtrend, a triangle and more edges in its upper half
BearishChart ==
    [kind |-> "ok", lines |-> 2, slope |-> 6, height |-> 200, zones |-> <<>>,
     contours |-> <<Triangle>>, samples |-> 10, volatility |-> 30,
     left_volume |-> 10, right_volume |-> 10, upper_half |-> 13, lower_half |-> 10]

\* a market response with one bar, without highs and lows
OneBarQuote ==
    Quote(<<BasePrice(PAIRS["EURUSD"])>>, None, FALSE, BasePrice(PAIRS["EURUSD"]))

\* The POST /analyze requests the model draws: the form's pair ("" when none
\* is selected), the uploaded chart and what the market answers.
WebRequests ==
    {[pair |-> "", image |-> NoImage, quote |-> FetchError],
     [pair |-> "EURUSD", image |-> NoImage, quote |-> FetchError],
     [pair |-> "EURUSD", image |-> UptrendChart, quote |-> FetchError],
     [pair |-> "EURUSD", image |-> BearishChart, quote |-> OneBarQuote]}

\* the logged-in users: login_required admits the active users
LoggedIn == {i \in 1..Len(users) : users[i].is_active}

\* the workers that are serving a POST /analyze
Analyzing == {w \in Workers : slots[w].pc = "analyzing"}

\* POST /analyze up to the call of the analyzer: the user row is loaded into
\* the session of the request, the credits are checked, the form is read.
AnalyzeBegin(w, u, rq) ==
    /\ slots[w].pc = "idle"
    /\ u \in LoggedIn
    /\ Len(transactions) + Cardinality(Analyzing) < MaxRows
    /\ IF config.ANALYSIS_COST = None
       THEN /\ UNCHANGED slots
       ELSE IF users[u].credits < config.ANALYSIS_COST[1]
       THEN /\ UNCHANGED slots
       ELSE IF rq.pair = ""
       THEN /\ UNCHANGED slots
       ELSE /\ slots' = [slots EXCEPT ![w] =
                            [pc |-> "analyzing", user |-> u,
                             credits |-> users[u].credits, request |-> Some(rq)]]
    /\ UNCHANGED <<core, engine, min_confidence, users, config, analyses, transactions,
                   ad_views, now>>

\* AnalyzeFinish with the deduction made in the database, on the balance of
\* the row as it is at the commit
AnalyzeFinish_RelativeUpdate(w) ==
    /\ slots[w].pc = "analyzing"
    /\ LET u == slots[w].user
           rq == slots[w].request[1]
           outcome == generate_signal(min_confidence, rq.pair, rq.image, rq.quote, hashSeed)
           r == outcome.value
           cost == config.ANALYSIS_COST[1]
       IN  IF r.signal \in {"BUY", "SELL"} /\ r.confidence >= 70 * 10
           THEN /\ users' = [users EXCEPT ![u].credits = users[u].credits - cost]
                /\ analyses' = Append(analyses,
                       [user_id |-> u, pair |-> rq.pair, signal |-> r.signal,
                        entry_price |-> r.entry_price, take_profit |-> r.take_profit,
                        stop_loss |-> r.stop_loss, confidence |-> r.confidence \div 10,
                        reasoning |-> r.reasoning])
                /\ transactions' = Append(transactions,
                       [user_id |-> u, type |-> "DEBIT", amount |-> cost])
           ELSE /\ UNCHANGED <<users, analyses, transactions>>
    /\ slots' = [slots EXCEPT ![w] = IdleSlot]
    /\ UNCHANGED <<core, engine, min_confidence, config, ad_views, now>>

\* AnalyzeFinish with every report charged, whatever its signal
AnalyzeFinish_ChargesAlways(w) ==
    /\ slots[w].pc = "analyzing"
    /\ LET u == slots[w].user
           rq == slots[w].request[1]
           outcome == generate_signal(min_confidence, rq.pair, rq.image, rq.quote, hashSeed)
           r == outcome.value
           cost == config.ANALYSIS_COST[1]
       IN  /\ users' = [users EXCEPT ![u].credits = slots[w].credits - cost]
           /\ analyses' = Append(analyses,
                  [user_id |-> u, pair |-> rq.pair, signal |-> r.signal,
                   entry_price |-> r.entry_price, take_profit |-> r.take_profit,
                   stop_loss |-> r.stop_loss, confidence |-> r.confidence \div 10,
                   reasoning |-> r.reasoning])
           /\ transactions' = Append(transactions,
                  [user_id |-> u, type |-> "DEBIT", amount |-> cost])
    /\ slots' = [slots EXCEPT ![w] = IdleSlot]
    /\ UNCHANGED <<core, engine, min_confidence, config, ad_views, now>>

\* AnalyzeFinish with the analyzer raising its threshold after every trade
AnalyzeFinish_Adaptive(w) ==
    /\ slots[w].pc = "analyzing"
    /\ LET u == slots[w].user
           rq == slots[w].request[1]
           outcome == generate_signal(min_confidence, rq.pair, rq.image, rq.quote, hashSeed)
           r == outcome.value
           cost == config.ANALYSIS_COST[1]
       IN  IF r.signal \in {"BUY", "SELL"} /\ r.confidence >= 70 * 10
           THEN /\ users' = [users EXCEPT ![u].credits = slots[w].credits - cost]
                /\ analyses' = Append(analyses,
                       [user_id |-> u, pair |-> rq.pair, signal |-> r.signal,
                        entry_price |-> r.entry_price, take_profit |-> r.take_profit,
                        stop_loss |-> r.stop_loss, confidence |-> r.confidence \div 10,
                        reasoning |-> r.reasoning])
                /\ transactions' = Append(transactions,
                       [user_id |-> u, type |-> "DEBIT", amount |-> cost])
                /\ min_confidence' = r.confidence \div 10
           ELSE /\ UNCHANGED <<users, analyses, transactions, min_confidence>>
    /\ slots' = [slots EXCEPT ![w] = IdleSlot]
    /\ UNCHANGED <<core, engine, config, ad_views, now>>

\* POST /analyze from the call of the analyzer on: the report is computed,
\* a valid signal is charged to the user row of the request's session and
\* committed with its Analysis and its Transaction, the JSON is returned.
AnalyzeFinish(w) ==
    /\ slots[w].pc = "analyzing"
    /\ LET u == slots[w].user
           rq == slots[w].request[1]
           outcome == generate_signal(min_confidence, rq.pair, rq.image, rq.quote, hashSeed)
           r == outcome.value
           cost == config.ANALYSIS_COST[1]
       IN  IF outcome.exc # "none"
           THEN /\ UNCHANGED <<users, analyses, transactions>>
           ELSE IF r.signal \in {"BUY", "SELL"} /\ r.confidence >= 70 * 10
           THEN /\ users' = [users EXCEPT ![u].credits = slots[w].credits - cost]
                /\ analyses' = Append(analyses,
                       [user_id |-> u, pair |-> rq.pair, signal |-> r.signal,
                        entry_price |-> r.entry_price, take_profit |-> r.take_profit,
                        stop_loss |-> r.stop_loss, confidence |-> r.confidence \div 10,
                        reasoning |-> r.reasoning])
                /\ transactions' = Append(transactions,
                       [user_id |-> u, type |-> "DEBIT", amount |-> cost])
           ELSE /\ UNCHANGED <<users, analyses, transactions>>
    /\ slots' = [slots EXCEPT ![w] = IdleSlot]
    /\ UNCHANGED <<core, engine, min_confidence, config, ad_views, now>>

\* the rows of table rows that belong to user u, in insertion order
RECURSIVE RowsOf(_, _)
RowsOf(rows, u) ==
    IF rows = <<>> THEN <<>>
    ELSE IF Head(rows).user_id = u THEN <<Head(rows)>> \o RowsOf(Tail(rows), u)
    ELSE RowsOf(Tail(rows), u)

\* AdView.query.filter_by(user_id=u).order_by(AdView.watched_at.desc()).first():
\* the watched_at of the user's most recent ad view, None without one.
LastAd(u) ==
    LET mine == RowsOf(ad_views, u)
    IN  IF mine = <<>> THEN None
        ELSE Some(SeqMax([i \in 1..Len(mine) |-> mine[i].watched_at]))

\* timedelta.seconds: the seconds within the day; the whole days of the
\* difference are its .days, which the route does not read
Seconds(delta) == delta % DaySeconds

\* WatchAd without its Transaction row
WatchAd_NoTransaction(u) ==
    /\ u \in LoggedIn
    /\ Len(ad_views) < MaxRows /\ Len(transactions) < MaxRows
    /\ IF LastAd(u) # None /\ Seconds(now - LastAd(u)[1]) < AdInterval
       THEN /\ UNCHANGED <<users, ad_views, transactions>>
       ELSE IF config.AD_REWARD = None
       THEN /\ UNCHANGED <<users, ad_views, transactions>>
       ELSE LET reward == config.AD_REWARD[1]
            IN  /\ ad_views' = Append(ad_views,
                       [user_id |-> u, credits_earned |-> reward, watched_at |-> now])
                /\ users' = [users EXCEPT ![u].credits = users[u].credits + reward]
                /\ UNCHANGED transactions
    /\ UNCHANGED <<core, engine, min_confidence, config, analyses, now, slots>>

\* POST /watch-ad
WatchAd(u) ==
    /\ u \in LoggedIn
    /\ Len(ad_views) < MaxRows /\ Len(transactions) < MaxRows
    /\ IF LastAd(u) # None /\ Seconds(now - LastAd(u)[1]) < AdInterval
       THEN /\ UNCHANGED <<users, ad_views, transactions>>
       ELSE IF config.AD_REWARD = None
       THEN /\ UNCHANGED <<users, ad_views, transactions>>
       ELSE LET reward == config.AD_REWARD[1]
            IN  /\ ad_views' = Append(ad_views,
                       [user_id |-> u, credits_earned |-> reward, watched_at |-> now])
                /\ users' = [users EXCEPT ![u].credits = users[u].credits + reward]
                /\ transactions' = Append(transactions,
                       [user_id |-> u, type |-> "AD_REWARD", amount |-> reward])
    /\ UNCHANGED <<core, engine, min_confidence, config, analyses, now, slots>>

\* who sends a request: a user of the table, or 0 for a client that is not
\* logged in
Actors == 0..Len(users)

\* admin_required without the test of is_admin
admin_required_LoginOnly(adm) == adm \in LoggedIn

\* admin_required: the request is served when the current user is an admin
admin_required(adm) == adm \in LoggedIn /\ users[adm].is_admin

\* the amounts POST /admin/user/<id>/add-credits is given:
\* request.form.get('amount', type=int) is None for a missing or malformed field
Amounts == {None, Some(0), Some(-100), Some(100)}

\* POST /admin/user/<user_id>/add-credits
AddCredits(adm, user_id, amount) ==
    /\ adm \in Actors
    /\ Len(transactions) < MaxRows
    /\ IF ~admin_required(adm)
       THEN /\ UNCHANGED <<users, transactions>>
       ELSE IF user_id \notin 1..Len(users)
       THEN /\ UNCHANGED <<users, transactions>>
       ELSE IF Truthy(amount) /\ amount[1] > 0
       THEN /\ users' = [users EXCEPT ![user_id].credits = users[user_id].credits + amount[1]]
            /\ transactions' = Append(transactions,
                   [user_id |-> user_id, type |-> "ADMIN_CREDIT", amount |-> amount[1]])
       ELSE /\ UNCHANGED <<users, transactions>>
    /\ UNCHANGED <<core, engine, min_confidence, config, analyses, ad_views, now, slots>>

\* int(field) if field.strip() else default, for the form fields the model
\* draws: decimal numbers, the empty field, a field that is no number
IntField(field, default) ==
    CASE field = "" -> Return(default)
      [] field = "50" -> Return(50)
      [] field = "600" -> Return(600)
      [] field = "10" -> Return(10)
      [] field = "0" -> Return(0)
      [] OTHER -> Raise("ValueError")

CostFields == {"50", "600", "", "abc"}
RewardFields == {"10", "", "abc"}
DailyFields == {"0", "abc"}

\* POST /admin/settings: the attributes of Config are set one after the
\* other; a field that is no number ends the handler where it is.
Settings(adm, analysis_cost, ad_reward, daily_credits) ==
    /\ adm \in Actors
    /\ IF ~admin_required(adm)
       THEN /\ UNCHANGED config
       ELSE LET cost == IntField(analysis_cost, 50)
                reward == IntField(ad_reward, 10)
                daily == IntField(daily_credits, 0)
            IN  IF cost.exc # "none"
                THEN /\ UNCHANGED config
                ELSE IF reward.exc # "none"
                THEN /\ config' = [config EXCEPT !.ANALYSIS_COST = Some(cost.value)]
                ELSE IF daily.exc # "none"
                THEN /\ config' = [config EXCEPT !.ANALYSIS_COST = Some(cost.value),
                                                 !.AD_REWARD = Some(reward.value)]
                ELSE /\ config' = [config EXCEPT !.ANALYSIS_COST = Some(cost.value),
                                                 !.AD_REWARD = Some(reward.value),
                                                 !.DAILY_FREE_CREDITS = Some(daily.value)]
    /\ UNCHANGED <<core, engine, min_confidence, users, analyses, transactions, ad_views, now, slots>>

Usernames == {"admin", "trader"}
Emails == {ADMIN_EMAIL, "trader@wizforex.com"}
Passwords == {<<"s", "e", "c", "r", "e">>, <<"s", "e", "c", "r", "e", "t">>}

\* POST /signup
Signup(username, email, password) ==
    /\ Len(users) < MaxUsers
    /\ IF \E i \in 1..Len(users) : users[i].email = email
       THEN /\ UNCHANGED users
       ELSE IF Len(password) < MinPassword
       THEN /\ UNCHANGED users
       ELSE IF \E i \in 1..Len(users) : users[i].username = username
       THEN /\ UNCHANGED users
       ELSE /\ users' = Append(users, User(username, email, SignupCredits, FALSE))
    /\ UNCHANGED <<core, engine, min_confidence, config, analyses, transactions, ad_views, now, slots>>

\* the instants at which the model looks at the clock: 15 and 30 seconds
\* after the start, one day after it, and 15 seconds later
Instants == {0, AdInterval \div 2, AdInterval, DaySeconds, DaySeconds + AdInterval \div 2}

\* time passes: the clock reads t
Tick(t) ==
    /\ t > now
    /\ now' = t
    /\ UNCHANGED <<core, engine, min_confidence, users, config, analyses, transactions,
                   ad_views, slots>>

\* no POST /analyze is in flight
Quiet == Analyzing = {}

\* SpecWeb: the requests are served one after the other
NextWeb ==
    \/ /\ Quiet
       /\ \E w \in Workers, u \in LoggedIn, rq \in WebRequests : AnalyzeBegin(w, u, rq)
    \/ \E w \in Workers : AnalyzeFinish(w)
    \/ /\ Quiet
       /\ \E u \in LoggedIn : WatchAd(u)
    \/ /\ Quiet
       /\ \E adm \in LoggedIn, user_id \in 1..MaxUsers, amount \in Amounts :
              AddCredits(adm, user_id, amount)
    \/ /\ Quiet
       /\ \E adm \in LoggedIn, analysis_cost \in CostFields, ad_reward \in RewardFields,
             daily_credits \in DailyFields :
              Settings(adm, analysis_cost, ad_reward, daily_credits)
    \/ /\ Quiet
       /\ \E username \in Usernames, email \in Emails, password \in Passwords :
              Signup(username, email, password)
    \/ /\ Quiet
       /\ \E t \in Instants : Tick(t)

SpecWeb == Init /\ [][NextWeb]_vars

\* the configurations of SpecRace: ANALYSIS_COST and AD_REWARD are positive
\* and stay as POST /admin/settings has set them
RaceConfigs ==
    {[ANALYSIS_COST |-> Some(IntField(f, 50).value), AD_REWARD |-> Some(10),
      DAILY_FREE_CREDITS |-> Some(0)] :
        f \in {"50", "600"}}

InitRace ==
    /\ pc = "idle"
    /\ pair = "EURUSD"
    /\ image = NoImage
    /\ quote = FetchError
    /\ hashSeed \in HashSeeds
    /\ min_confidence = 70
    /\ result = NoResult
    /\ first_result = NoResult
    /\ live = NoResult
    /\ runs = 0
    /\ \E cfg \in RaceConfigs : WebState(cfg)
    /\ EngineInit

\* SpecRace: the workers serve requests concurrently, the steps of two
\* POST /analyze interleave with each other and with the other routes
NextRace ==
    \/ \E w \in Workers, u \in LoggedIn, rq \in WebRequests : AnalyzeBegin(w, u, rq)
    \/ \E w \in Workers : AnalyzeFinish(w)
    \/ \E u \in LoggedIn : WatchAd(u)
    \/ \E adm \in LoggedIn, user_id \in 1..MaxUsers, amount \in Amounts :
           AddCredits(adm, user_id, amount)
    \/ \E username \in Usernames, email \in Emails, password \in Passwords :
           Signup(username, email, password)

SpecRace == InitRace /\ [][NextRace]_vars

\* the workers that are serving a POST /admin/user/<id>/toggle-admin
Toggling == {w \in Workers : slots[w].pc = "toggling"}

\* POST /admin/user/<user_id>/toggle-admin up to the assignment: the
\* decorators test the current user, the row of user_id is loaded into the
\* session of the request, a request on the actor's own row is refused.
ToggleAdminBegin(w, adm, user_id) ==
    /\ slots[w].pc = "idle"
    /\ adm \in Actors
    /\ IF ~admin_required(adm)
       THEN /\ UNCHANGED slots
       ELSE IF user_id \notin 1..Len(users)
       THEN /\ UNCHANGED slots
       ELSE IF user_id = adm
       THEN /\ UNCHANGED slots
       ELSE /\ slots' = [slots EXCEPT ![w] =
                            [pc |-> "toggling", user |-> adm, credits |-> 0,
                             request |-> Some([user_id |-> user_id,
                                               is_admin |-> users[user_id].is_admin])]]
    /\ UNCHANGED <<core, engine, min_confidence, users, config, analyses, transactions,
                   ad_views, now>>

\* user.is_admin = not user.is_admin and the commit: the row is written with
\* the negation of the value the request loaded
ToggleAdminFinish(w) ==
    /\ slots[w].pc = "toggling"
    /\ LET target == slots[w].request[1]
       IN  users' = [users EXCEPT ![target.user_id].is_admin = ~target.is_admin]
    /\ slots' = [slots EXCEPT ![w] = IdleSlot]
    /\ UNCHANGED <<core, engine, min_confidence, config, analyses, transactions,
                   ad_views, now>>

\* POST /admin/user/<user_id>/ban
BanUser(adm, user_id) ==
    /\ adm \in Actors
    /\ IF ~admin_required(adm)
       THEN /\ UNCHANGED users
       ELSE IF user_id \notin 1..Len(users)
       THEN /\ UNCHANGED users
       ELSE IF user_id = adm
       THEN /\ UNCHANGED users
       ELSE /\ users' = [users EXCEPT ![user_id].is_active = FALSE]
    /\ UNCHANGED <<core, engine, min_confidence, config, analyses, transactions,
                   ad_views, now, slots>>

\* no request is in flight
Idle == \A w \in Workers : slots[w].pc = "idle"

\* SpecAdmin: the administration, its requests served one after the other,
\* sent by admins, by other users and by clients that are not logged in
NextAdmin ==
    \/ /\ Idle
       /\ \E adm \in Actors, user_id \in 1..MaxUsers, amount \in Amounts :
              AddCredits(adm, user_id, amount)
    \/ /\ Idle
       /\ \E w \in Workers, adm \in Actors, user_id \in 1..MaxUsers :
              ToggleAdminBegin(w, adm, user_id)
    \/ \E w \in Workers : ToggleAdminFinish(w)
    \/ /\ Idle
       /\ \E adm \in Actors, user_id \in 1..MaxUsers : BanUser(adm, user_id)
    \/ /\ Idle
       /\ \E adm \in Actors, analysis_cost \in CostFields, ad_reward \in RewardFields,
             daily_credits \in DailyFields :
              Settings(adm, analysis_cost, ad_reward, daily_credits)
    \/ /\ Idle
       /\ \E username \in Usernames, email \in Emails, password \in Passwords :
              Signup(username, email, password)

SpecAdmin == Init /\ [][NextAdmin]_vars

\* SpecAdminRace: the workers serve the requests of the administration
\* concurrently, the steps of two toggle-admin requests interleave with each
\* other and with the other routes
NextAdminRace ==
    \/ \E adm \in Actors, user_id \in 1..MaxUsers, amount \in Amounts :
           AddCredits(adm, user_id, amount)
    \/ \E w \in Workers, adm \in Actors, user_id \in 1..MaxUsers :
           ToggleAdminBegin(w, adm, user_id)
    \/ \E w \in Workers : ToggleAdminFinish(w)
    \/ \E adm \in Actors, user_id \in 1..MaxUsers : BanUser(adm, user_id)
    \/ \E username \in Usernames, email \in Emails, password \in Passwords :
           Signup(username, email, password)

SpecAdminRace == Init /\ [][NextAdminRace]_vars

----------------------------------------------------------------------------
(***************************************************************************)
(* The aggregation of the verdicts of one request: SpecAggregate           *)
(***************************************************************************)
VerdictConfidences == {0, 50, 100}
VerdictPrices == {1000, 1020}

\* what one timeframe hands over: nothing, or its verdict
VerdictsOf(timeframe) ==
    {<<>>} \cup {<<TimeframeVerdict(timeframe, signal, confidence, price)>> :
                    signal \in Signals, confidence \in VerdictConfidences,
                    price \in VerdictPrices}

\* the timeframes that produced data hand their verdicts to the aggregator
Collect(m15, h4, d1) ==
    /\ epc = "idle"
    /\ verdicts' = m15 \o h4 \o d1
    /\ aggregate' = None
    /\ epc' = "collected"
    /\ UNCHANGED <<core, min_confidence, web>>

\* the aggregator returns its verdict
AggregateStep ==
    /\ epc = "collected"
    /\ \E a \in Aggregate(verdicts) : aggregate' = Some(a)
    /\ epc' = "done"
    /\ UNCHANGED <<core, min_confidence, web, verdicts>>

\* the report is returned and the entities of the request are discarded
Discard ==
    /\ epc = "done"
    /\ verdicts' = <<>>
    /\ aggregate' = None
    /\ epc' = "idle"
    /\ UNCHANGED <<core, min_confidence, web>>

NextAggregate ==
    \/ epc = "idle" /\ \E m15 \in VerdictsOf(Timeframes[1]), h4 \in VerdictsOf(Timeframes[2]),
                          d1 \in VerdictsOf(Timeframes[3]) : Collect(m15, h4, d1)
    \/ AggregateStep
    \/ Discard

InitAggregate == Init /\ hashSeed = 0

SpecAggregate == InitAggregate /\ [][NextAggregate]_vars

----------------------------------------------------------------------------
(* The claims                                                              *)

\* a report has been produced for the current request
Reported == pc = "done" /\ result.exc = "none"

\* the live data of the current request, None when there is none
LiveOfRequest == get_live_price_data(quote).value

\* the price fetch of the current request failed or gave no closes
NoUsableData == quote.kind = "error" \/ Filter(quote.close) = <<>>

ReportFields == {"signal", "confidence", "entry_price", "take_profit", "stop_loss", "reasoning"}

\* C1: when no usable market data is available (the fetch fails or returns
\* no closes) the report has signal NEUTRAL, confidence 0 and the single
\* reason "No data available", and carries no price.
C1_NoDataNoTrade ==
    (pc = "done" /\ NoUsableData) =>
        /\ result.exc = "none"
        /\ result.value.signal = "NEUTRAL"
        /\ result.value.confidence = 0
        /\ result.value.reasoning = <<Reason("No data available", <<>>)>>
        /\ result.value.entry_price = None

\* C2: in every BUY report stop_loss < entry_price < take_profit, in every
\* SELL report take_profit < entry_price < stop_loss, whatever the image
\* analysis and the live data (also unavailable live data) were.
C2_LevelsOrdered ==
    Reported =>
        LET r == result.value
        IN  /\ r.signal = "BUY" =>
                /\ r.stop_loss # None /\ r.entry_price # None /\ r.take_profit # None
                /\ r.stop_loss[1] < r.entry_price[1]
                /\ r.entry_price[1] < r.take_profit[1]
            /\ r.signal = "SELL" =>
                /\ r.stop_loss # None /\ r.entry_price # None /\ r.take_profit # None
                /\ r.take_profit[1] < r.entry_price[1]
                /\ r.entry_price[1] < r.stop_loss[1]

\* C3: a report whose signal is NEUTRAL has stop_loss and take_profit null;
\* non-null levels come only with a BUY or a SELL.
C3_NoTradeNoLevels ==
    Reported =>
        LET r == result.value
        IN  /\ r.signal = "NEUTRAL" => (r.stop_loss = None /\ r.take_profit = None)
            /\ (r.stop_loss # None \/ r.take_profit # None) => r.signal \in {"BUY", "SELL"}

\* C3 witness: a NEUTRAL report on real market data, with an entry price and
\* no levels
C3_Witness ==
    /\ Reported
    /\ LiveOfRequest # None
    /\ result.value.signal = "NEUTRAL"
    /\ result.value.entry_price # None
    /\ result.value.stop_loss = None
    /\ result.value.take_profit = None

\* C4: two runs of the analysis on identical inputs (pair, chart image,
\* market response) produce identical reports in every field, the order of
\* the lists included.
C4_Deterministic ==
    (pc = "done" /\ runs = 2) => result = first_result

WindowDeltas(closes) ==
    LET n == Len(closes) - 1
        first == IF n >= RsiPeriod THEN n - RsiPeriod + 1 ELSE 1
    IN  {closes[i + 1] - closes[i] : i \in first..n}

\* live data has been computed from the series of the market
Fetched == pc = "fetched" /\ live.exc = "none" /\ live.value # None

\* C6: the RSI of every non-empty series of closes lies in [0, 100], and it
\* is 100 when every difference in the averaging window is non-negative and
\* at least one is positive.
C6_RsiRange ==
    Fetched =>
        LET rsi == live.value[1].rsi
            deltas == WindowDeltas(Filter(quote.close))
        IN  /\ 0 <= rsi /\ rsi <= 100 * RsiScale
            /\ ((\A d \in deltas : d >= 0) /\ (\E d \in deltas : d > 0))
                   => rsi = 100 * RsiScale

\* C6 witness: a series longer than the window that fell before the window
\* and only rose inside it, with RSI 100
C6_Witness ==
    /\ Fetched
    /\ Len(quote.close) > RsiPeriod + 1
    /\ quote.close[2] < quote.close[1]
    /\ \A d \in WindowDeltas(quote.close) : d >= 0
    /\ \E d \in WindowDeltas(quote.close) : d > 0
    /\ live.value[1].rsi = 100 * RsiScale

\* C7: on a fully flat window (every difference zero) the RSI is 100.
C7_FlatRsi100 ==
    Fetched =>
        LET deltas == WindowDeltas(Filter(quote.close))
        IN  (deltas # {} /\ \A d \in deltas : d = 0)
                => live.value[1].rsi = 100 * RsiScale

\* C7 witness: a series with a full flat window and RSI 100
C7_Witness ==
    /\ Fetched
    /\ Len(quote.close) > RsiPeriod
    /\ \A d \in WindowDeltas(quote.close) : d = 0
    /\ live.value[1].rsi = 100 * RsiScale

\* the series of the current request is flat: every close, every high and
\* low and the previous close are one constant
FlatSeries ==
    /\ quote.kind = "ok"
    /\ quote.close # <<>>
    /\ \A i \in 1..Len(quote.close) : quote.close[i] = quote.close[1] /\ quote.close[i] # 0
    /\ quote.previousClose \in {None, Some(quote.close[1])}
    /\ \A i \in 1..Len(quote.high) : quote.high[i] \in {0, quote.close[1]}
    /\ \A i \in 1..Len(quote.low) : quote.low[i] \in {0, quote.close[1]}

\* C8: on a flat price series the final signal is NEUTRAL, whatever the
\* constant price.
C8_FlatNoTrade ==
    (Reported /\ FlatSeries) => result.value.signal = "NEUTRAL"

\* C9: the confidence of every report lies in [0, 100] and never exceeds 98
\* (confidence is in tenths).
C9_ConfidenceBound ==
    Reported => (0 <= result.value.confidence /\ result.value.confidence <= 980)

\* C9 witness: a trade whose confidence is at the cap of the code, 95
C9_Witness ==
    /\ Reported
    /\ result.value.signal \in {"BUY", "SELL"}
    /\ result.value.confidence = 950

\* the tiers of the claim: > 10000 -> 2, > 1000 -> 3, > 100 -> 4, else 5
ClaimedTiers(price) ==
    IF price > 10000 * Scale THEN 2
    ELSE IF price > 1000 * Scale THEN 3
    ELSE IF price > 100 * Scale THEN 4
    ELSE 5

\* the tiers of the amended claim: > 1000 -> 2, > 100 -> 3, else 5
AmendedTiers(price) ==
    IF price > 1000 * Scale THEN 2
    ELSE IF price > 100 * Scale THEN 3
    ELSE 5

\* the reported prices are the live prices rounded to tiers(price) decimals
RoundedBy(tiers(_)) ==
    (Reported /\ LiveOfRequest # None) =>
        LET data == LiveOfRequest[1]
            d == tiers(data.price)
            r == result.value
        IN  /\ r.entry_price = Some(round(data.price, d))
            /\ r.levels.day_high = round(data.day_high, d)
            /\ r.levels.day_low = round(data.day_low, d)

\* C10 as stated: the reported price levels are rounded to 2 decimals for a
\* price > 10000, 3 for a price > 1000, 4 for a price > 100, otherwise 5.
C10_ClaimedTiers == RoundedBy(ClaimedTiers)

\* C10 amended: the reported price levels are rounded to 2 decimals for a
\* price > 1000, 3 for a price > 100, otherwise 5.
C10_AmendedTiers == RoundedBy(AmendedTiers)

\* C10 witness: a report on a price between 100 and 1000 whose entry price is
\* rounded to 3 decimals and differs from the price rounded to 4
C10_Witness ==
    /\ Reported
    /\ LiveOfRequest # None
    /\ LiveOfRequest[1].price > 100 * Scale
    /\ LiveOfRequest[1].price <= 1000 * Scale
    /\ result.value.entry_price = Some(round(LiveOfRequest[1].price, 3))
    /\ result.value.entry_price # Some(round(LiveOfRequest[1].price, 4))

\* a report with a BUY or SELL signal has been produced
Trade == Reported /\ result.value.signal \in {"BUY", "SELL"}

\* C11: in every BUY or SELL report with a positive entry price the distance
\* between entry_price and stop_loss is at least 0.5 % of the entry price,
\* whatever the day's high and low are.
C11_StopDistance ==
    (Trade /\ result.value.entry_price # None) =>
        LET r == result.value
        IN  r.entry_price[1] > 0 =>
                /\ r.stop_loss # None
                /\ 200 * Abs(r.entry_price[1] - r.stop_loss[1]) >= r.entry_price[1]

\* C11 witness: a trade on bars without highs and lows, where the day's range
\* is the price itself and the stop rests on the price alone
C11_Witness ==
    /\ Trade
    /\ LiveOfRequest # None
    /\ LiveOfRequest[1].day_low = LiveOfRequest[1].price
    /\ LiveOfRequest[1].day_high = LiveOfRequest[1].price
    /\ result.value.entry_price # None
    /\ result.value.stop_loss # None
    /\ 200 * Abs(result.value.entry_price[1] - result.value.stop_loss[1])
           >= result.value.entry_price[1]

\* the riskReward of the claim per asset class, in tenths: 2.5 crypto,
\* 2.0 metals, 1.5 default
ClaimedRiskReward(p) ==
    IF p \in {"BTCUSD", "ETHUSD"} THEN 25
    ELSE IF p \in {"XAUUSD", "XAGUSD"} THEN 20
    ELSE 15

\* twice the take-profit distance equals five times the stop distance, up to
\* the rounding of the three reported levels
TargetIsStopTimes25(r, price) ==
    LET unit == 10 ^ (MaxDecimals - AmendedTiers(price))
        tp_distance == Abs(r.take_profit[1] - r.entry_price[1])
        sl_distance == Abs(r.entry_price[1] - r.stop_loss[1])
    IN  Abs(2 * tp_distance - 5 * sl_distance) <= 7 * unit

Finishing(w) == slots[w].pc = "analyzing" /\ slots'[w].pc = "idle"

\* worker w passes the checks of a POST /analyze in this step
Beginning(w) == slots[w].pc = "idle" /\ slots'[w].pc = "analyzing"

\* the report of the request worker w serves, as the analyzer computes it
\* with threshold minc
ReportOf(w, minc) ==
    LET rq == slots[w].request[1]
    IN  generate_signal(minc, rq.pair, rq.image, rq.quote, hashSeed).value

\* a report that is charged: a BUY or SELL with confidence >= 70
ValidSignal(r) == r.signal \in {"BUY", "SELL"} /\ r.confidence >= 70 * 10

\* the Analysis row that records report r for user u
RecordsReport(row, u, r) ==
    /\ row.user_id = u
    /\ row.signal = r.signal
    /\ row.entry_price = r.entry_price
    /\ row.take_profit = r.take_profit
    /\ row.stop_loss = r.stop_loss
    /\ row.confidence = r.confidence \div 10

\* C13: generate_signal leaves the analyzer instance unchanged
\* (min_confidence stays 70), and the report a POST /analyze records is the
\* report of its own pair, chart and market data under that threshold,
\* whatever other requests ran before it or run concurrently with it.
C13_NoSharedState ==
    [][/\ min_confidence = 70
       /\ min_confidence' = 70
       /\ \A w \in Workers :
              Finishing(w) =>
                  LET r == ReportOf(w, 70)
                  IN  /\ ValidSignal(r) <=> analyses' # analyses
                      /\ analyses' # analyses =>
                             /\ Len(analyses') = Len(analyses) + 1
                             /\ RecordsReport(analyses'[Len(analyses')], slots[w].user, r)]_vars

\* C13 witness: a charged report is on record while another POST /analyze
\* is in flight
C13_Witness ==
    /\ Analyzing # {}
    /\ analyses # <<>>
    /\ min_confidence = 70

\* C16: a POST /analyze that completes charges the user exactly
\* ANALYSIS_COST and records exactly one Analysis and one DEBIT Transaction
\* of that amount if and only if its report is a BUY or SELL with confidence
\* >= 70; a request that is refused (insufficient credits, no pair) or whose
\* report is not a valid signal leaves credits, analyses and transactions
\* unchanged.
C16_ChargesValidSignals ==
    [][/\ \A w \in Workers :
              Finishing(w) =>
                  LET u == slots[w].user
                      r == ReportOf(w, min_confidence)
                      cost == config.ANALYSIS_COST[1]
                  IN  IF ValidSignal(r)
                      THEN /\ users' = [users EXCEPT ![u].credits = users[u].credits - cost]
                           /\ Len(analyses') = Len(analyses) + 1
                           /\ SubSeq(analyses', 1, Len(analyses)) = analyses
                           /\ RecordsReport(analyses'[Len(analyses')], u, r)
                           /\ transactions' = Append(transactions,
                                  [user_id |-> u, type |-> "DEBIT", amount |-> cost])
                      ELSE UNCHANGED <<users, analyses, transactions>>
       /\ \A w \in Workers :
              Beginning(w) =>
                  /\ UNCHANGED <<users, analyses, transactions>>
                  /\ slots'[w].request[1].pair # ""
                  /\ users[slots'[w].user].credits >= config.ANALYSIS_COST[1]
       /\ (\A w \in Workers : ~Finishing(w)) =>
              /\ analyses' = analyses
              /\ \A i \in 1..Len(transactions') :
                     i > Len(transactions) => transactions'[i].type # "DEBIT"]_vars

\* C16 witness: a trader has been charged 600 for one valid signal, with one
\* Analysis and one DEBIT on record
C16_Witness ==
    /\ Len(users) = 2
    /\ users[2].credits = SignupCredits - 600
    /\ Len(RowsOf(analyses, 2)) = 1
    /\ transactions = <<[user_id |-> 2, type |-> "DEBIT", amount |-> 600]>>

\* C17: every report that was charged (a BUY or SELL, recorded in analyses)
\* carries non-null entry_price, stop_loss and take_profit, also when the
\* live price data was unavailable.
C17_ChargedLevelsNonNull ==
    \A i \in 1..Len(analyses) :
        /\ analyses[i].signal \in {"BUY", "SELL"}
        /\ analyses[i].entry_price # None
        /\ analyses[i].stop_loss # None
        /\ analyses[i].take_profit # None

\* C18: with ANALYSIS_COST and AD_REWARD positive constants no user's
\* credits are negative in any reachable state, for every interleaving of
\* the requests.
C18_CreditsNonNegative ==
    \A u \in 1..Len(users) : users[u].credits >= 0

\* C18 witness: two POST /analyze of one trader both passed the credits
\* check before either deducted and both were charged 600 of the 1000
\* credits
C18_Witness ==
    /\ Len(users) = 2
    /\ RowsOf(transactions, 2) = <<[user_id |-> 2, type |-> "DEBIT", amount |-> 600],
                                   [user_id |-> 2, type |-> "DEBIT", amount |-> 600]>>
    /\ users[2].credits >= 0

\* the sum of the amounts of the rows of type type in rows
RECURSIVE AmountOf(_, _)
AmountOf(rows, type) ==
    IF rows = <<>> THEN 0
    ELSE (IF Head(rows).type = type THEN Head(rows).amount ELSE 0)
             + AmountOf(Tail(rows), type)

\* the credits user u was created with: the admin by init_database, every
\* other user by signup
InitialCredits(u) == IF users[u].email = ADMIN_EMAIL THEN AdminCredits ELSE SignupCredits

\* C19: each user's credits are the credits the user was created with, plus
\* the AD_REWARD and ADMIN_CREDIT transactions, minus the DEBIT transactions
\* of the user, after any sequence of signup, analyze, watch-ad, add-credits
\* and settings operations.
C19_LedgerConsistent ==
    \A u \in 1..Len(users) :
        LET mine == RowsOf(transactions, u)
        IN  users[u].credits =
                InitialCredits(u) + AmountOf(mine, "AD_REWARD")
                    + AmountOf(mine, "ADMIN_CREDIT") - AmountOf(mine, "DEBIT")

\* C19 witness: the admin changed ANALYSIS_COST between two analyses of one
\* user, who was charged 50 for one and 600 for the other
C19_Witness ==
    \E u \in 1..Len(users) :
        /\ \E i, j \in 1..Len(transactions) :
               /\ transactions[i].user_id = u /\ transactions[j].user_id = u
               /\ transactions[i].type = "DEBIT" /\ transactions[j].type = "DEBIT"
               /\ transactions[i].amount # transactions[j].amount
        /\ users[u].credits = InitialCredits(u) - AmountOf(RowsOf(transactions, u), "DEBIT")

\* less than 30 seconds have elapsed since the most recent ad view of user u
TooSoon(u) == LastAd(u) # None /\ now - LastAd(u)[1] < AdInterval

\* a POST /watch-ad of user u that is accepted: one AdView, one Transaction,
\* AD_REWARD more credits
AdAccepted(u) ==
    /\ WatchAd(u)
    /\ users'[u].credits = users[u].credits + config.AD_REWARD[1]
    /\ Len(ad_views') = Len(ad_views) + 1
    /\ Len(transactions') = Len(transactions) + 1

\* C20: a POST /watch-ad is rejected, with no credits, no AdView and no
\* Transaction, if and only if less than 30 seconds have elapsed since the
\* user's most recent ad view; 30 seconds or more after it, however long
\* after, it is accepted and credits AD_REWARD.
C20_AdThrottle ==
    \A u \in LoggedIn :
        (config.AD_REWARD # None /\ Len(ad_views) < MaxRows /\ Len(transactions) < MaxRows)
            => ((ENABLED AdAccepted(u)) <=> ~TooSoon(u))

\* at least two of the verdicts are of higher timeframes, one of them in
\* the buy family and one in the sell family
OppositeHigherVerdicts ==
    \E i, j \in DOMAIN verdicts :
        /\ verdicts[i].timeframe \in {"H4", "D1"}
        /\ verdicts[j].timeframe \in {"H4", "D1"}
        /\ verdicts[i].signal \in {"STRONG_BUY", "BUY", "WEAK_BUY"}
        /\ verdicts[j].signal \in {"STRONG_SELL", "SELL", "WEAK_SELL"}

\* C14: whenever at least two higher-timeframe verdicts are present and
\* they include both a buy-family and a sell-family signal, the aggregate
\* verdict is NO_TRADE with confidence <= 25, whatever the lower-timeframe
\* verdicts are and whether or not the prices diverge.
C14_HigherConflict ==
    (epc = "done" /\ OppositeHigherVerdicts) =>
        /\ aggregate[1].signal = "NO_TRADE"
        /\ aggregate[1].confidence <= 25 * 100

\* C14 witness: D1 and H4 disagree, M15 votes STRONG_BUY with full
\* confidence, the prices diverge, and the aggregator has returned
C14_Witness ==
    /\ epc = "done"
    /\ Len(verdicts) = 3
    /\ verdicts[1].signal = "STRONG_BUY" /\ verdicts[1].confidence = 100
    /\ verdicts[2].signal = "SELL" /\ verdicts[2].confidence = 0
    /\ verdicts[3].signal = "BUY" /\ verdicts[3].confidence = 100
    /\ OppositeHigherVerdicts
    /\ Diverges(verdicts)
    /\ aggregate[1].signal = "NO_TRADE"

\* C15: the aggregator given exactly one TimeframeVerdict returns that
\* verdict's signal and confidence unchanged, for every signal, confidence
\* and weight.
C15_SingleVerdictUnchanged ==
    (epc = "done" /\ Len(verdicts) = 1) =>
        /\ aggregate[1].signal = verdicts[1].signal
        /\ aggregate[1].confidence = verdicts[1].confidence * 100

\* the actor is authenticated and has is_admin = true
IsAdmin(actor) ==
    /\ actor \in 1..Len(users)
    /\ users[actor].is_active
    /\ users[actor].is_admin

\* this step is a step of an administrative request of the actor
AdminRequest(actor) ==
    \/ \E user_id \in 1..MaxUsers, amount \in Amounts : AddCredits(actor, user_id, amount)
    \/ \E w \in Workers, user_id \in 1..MaxUsers : ToggleAdminBegin(w, actor, user_id)
    \/ \E w \in Workers : slots[w].user = actor /\ ToggleAdminFinish(w)
    \/ \E user_id \in 1..MaxUsers : BanUser(actor, user_id)
    \/ \E analysis_cost \in CostFields, ad_reward \in RewardFields,
          daily_credits \in DailyFields :
           Settings(actor, analysis_cost, ad_reward, daily_credits)

\* this step changes what the administration governs: a setting, a user's
\* is_admin or is_active, or credits by an ADMIN_CREDIT
AdminChange ==
    \/ config' # config
    \/ \E i \in 1..Len(users) :
           \/ users'[i].is_admin # users[i].is_admin
           \/ users'[i].is_active # users[i].is_active
    \/ /\ Len(transactions') > Len(transactions)
       /\ transactions'[Len(transactions')].type = "ADMIN_CREDIT"

\* C21: add-credits, toggle-admin, ban and settings change state only when
\* the actor of the request is authenticated and has is_admin = true; sent
\* by any other actor (another user, a banned user, a client that is not
\* logged in) these requests leave all state unchanged.
C21_AdminOnly ==
    [][/\ \A actor \in 0..MaxUsers :
              (~IsAdmin(actor) /\ AdminRequest(actor)) => UNCHANGED vars
       /\ AdminChange => \E actor \in 1..MaxUsers : IsAdmin(actor) /\ AdminRequest(actor)]_vars

\* C21 witness: the admin has set the settings, credited the trader, made
\* the trader an admin and banned the trader, whose requests are refused
C21_Witness ==
    /\ Len(users) = 2
    /\ users[2].is_admin /\ ~users[2].is_active
    /\ users[2].credits > SignupCredits
    /\ config.DAILY_FREE_CREDITS # None
    /\ Idle

\* C22: every reachable state has at least one user with is_admin = true,
\* for every sequence and interleaving of toggle-admin requests.
C22_AlwaysAnAdmin ==
    \E i \in 1..Len(users) : users[i].is_admin

====
